---- MODULE Spec2Model ----
(***************************************************************************)
(* Model of the SMTP client of src/src/smtp_utils.py: send_email (the      *)
(* session engine), read_server_response, validate_email_address and the   *)
(* header check and outcome mapping of main, with smtp_server.py as one of  *)
(* the peers.  Strings are sequences of one-character                      *)
(* strings so that strip, startswith, "in" and the address regex are       *)
(* computed as the code computes them.                                     *)
(***************************************************************************)
EXTENDS Integers, Sequences, FiniteSets, TLC

\* ------------------------------------------------------------------ bounds
MaxRcpt == 2

\* ----------------------------------------------------------- string values
\* A Python value passed as an address or password: str is FALSE for a value
\* that is not a string (None, a number), chars is the text of a string.
Str(cs) == [str |-> TRUE, chars |-> cs]
NonStr == [str |-> FALSE, chars |-> <<>>]

Letters == {"a", "b", "c", "d", "e", "g", "o", "r", "p", "w"}
Digits == {"0", "1", "2", "3", "4", "5"}
LocalChars == Letters \cup Digits \cup {".", "_", "%", "+", "-"}
DomainChars == Letters \cup Digits \cup {".", "-"}
Whitespace == {" ", "\n", "\r", "\t"}

\* EMAIL_REGEX.match(s): ^[local]+@[domain]+\.[a-zA-Z]{2,}$ ; Python's $ also
\* matches just before a final newline.
EMAIL_REGEX_match(s) ==
    \E n \in {Len(s)} \cup (IF Len(s) > 0 /\ s[Len(s)] = "\n" THEN {Len(s) - 1} ELSE {}) :
        \E i \in 2..n : \E j \in (i + 2)..n :
            /\ s[i] = "@"
            /\ \A k \in 1..(i - 1) : s[k] \in LocalChars
            /\ s[j] = "."
            /\ \A k \in (i + 1)..(j - 1) : s[k] \in DomainChars
            /\ n - j >= 2
            /\ \A k \in (j + 1)..n : s[k] \in Letters

\* validate_email_address raises TypeError for a value that is not a string
validate_raises(email) == ~email.str

validate_email_address(email) == EMAIL_REGEX_match(email.chars)

\* smtp_client.py: isinstance(email, str) and bool(EMAIL_REGEX.match(email))
client_validate_email_address(email) == email.str /\ EMAIL_REGEX_match(email.chars)

\* bytes.decode().strip(): leading and trailing whitespace removed
RECURSIVE LStrip(_)
LStrip(s) == IF s # <<>> /\ Head(s) \in Whitespace THEN LStrip(Tail(s)) ELSE s

RECURSIVE RStrip(_)
RStrip(s) == IF s # <<>> /\ s[Len(s)] \in Whitespace
             THEN RStrip(SubSeq(s, 1, Len(s) - 1)) ELSE s

Strip(s) == RStrip(LStrip(s))

\* sub in s
Contains(s, sub) ==
    \E i \in 1..(Len(s) - Len(sub) + 1) : SubSeq(s, i, i + Len(sub) - 1) = sub

\* s.startswith(p)
StartsWith(s, p) == Len(s) >= Len(p) /\ SubSeq(s, 1, Len(p)) = p

\* decoded_response[:1]
FirstChar(s) == IF s = <<>> THEN <<>> ELSE <<s[1]>>

\* ------------------------------------------------------------ input domains
A_ab == Str(<<"a", "@", "b", ".", "c", "o">>)
A_cd == Str(<<"c", "@", "d", ".", "o", "r", "g">>)
A_ed == Str(<<"e", "@", "d", ".", "c", "o">>)
A_noTld == Str(<<"a", "@", "b">>)
A_empty == Str(<<>>)

Senders == {A_ab, A_noTld, A_empty, NonStr}
RcptValues == {A_cd, A_ed, A_noTld, NonStr}
Passwords == {Str(<<>>), Str(<<"p", "w">>)}

RcptLists == UNION {[1..n -> RcptValues] : n \in 0..MaxRcpt}

\* custom_headers: the dict of main's --header JSON object, as the sequence
\* of its (key, value) pairs in insertion order
\* "U+00E9" stands for the one character e-acute (code point 233)
NonAsciiChars == {"U+00E9"}
H_none == <<>>
H_two == << <<<<"X">>, <<"1">>>>, <<<<"Y">>, <<"2">>>> >>
H_nonascii == << <<<<"X">>, <<"U+00E9">>>> >>
H_crlf == << <<<<"X">>, <<"1", "\r", "\n", "Y", ":", "2">>>> >>
HeaderSets == {H_none, H_two, H_nonascii, H_crlf}

\* subject and body of the message
email_subject == <<"H", "i">>
email_body == <<"H", "e", "l", "l", "o">>

\* The calls that are explored: every sender, password and recipient list
\* without custom headers, and one valid envelope with each set of headers.
\* The peer is an arbitrary server ("any") or smtp_server.py ("toy").
Envelopes ==
    (Senders \X Passwords \X RcptLists \X {H_none} \X {"any"})
      \cup ({A_ab} \X {Str(<<>>)} \X {<<A_cd>>} \X HeaderSets \X {"any"})
      \cup ({A_ab} \X Passwords \X {<<A_cd>>, <<A_cd, A_ed>>} \X {H_none} \X {"toy"})

\* What one reader.read(1024) can deliver: bytes of the server (empty when
\* the peer closed the stream), a transport error, or bytes that do not decode.
R250 == <<"2", "5", "0", "\r", "\n">>
R334 == <<"3", "3", "4", "\r", "\n">>
R502 == <<"5", "0", "2", "\r", "\n">>
R501 == <<"5", "0", "1", "\r", "\n">>
R550 == <<"5", "5", "0", "\r", "\n">>
R421 == <<"4", "2", "1", "\r", "\n">>
REOF == <<>>

ServerLines == {R250, R334, R502, R501, R550, R421, REOF}

ReadOutcomes == [kind : {"data"}, text : ServerLines]
                  \cup {[kind |-> "reset", text |-> <<>>],
                        [kind |-> "decode", text |-> <<>>]}

\* ------------------------------------------------------------------- state
VARIABLES
    sender_address,       \* argument of send_email
    sender_password,      \* argument of send_email
    recipient_addresses,  \* argument of send_email
    custom_headers,       \* argument of send_email
    server,               \* "any": an arbitrary peer; "toy": smtp_server.py
    pc,                   \* position in send_email / main
    email_sent,           \* local of send_email
    error_type,           \* local of send_email
    conn,                 \* "none" | "open" | "closed": the transport
    connects,             \* number of asyncio.open_connection calls
    closes,               \* number of times the transport was closed
    wire,                 \* what was handed to writer.write, in order
    rx,                   \* what reader.read delivered, in order
    rcpt_idx,             \* index of the RCPT TO loop
    fault,                \* transport fault that ended the session, or "none"
    output                \* JSON object printed by main

vars == <<sender_address, sender_password, recipient_addresses, custom_headers,
          server, pc, email_sent,
          error_type, conn, connects, closes, wire, rx, rcpt_idx, fault, output>>

NoOutput == [status_code |-> 0, message |-> ""]

Item(c, a) == [cmd |-> c, arg |-> a]

Init ==
    /\ \E e \in Envelopes :
         /\ sender_address = e[1]
         /\ sender_password = e[2]
         /\ recipient_addresses = e[3]
         /\ custom_headers = e[4]
         /\ server = e[5]
    /\ pc = "main"
    /\ email_sent = FALSE
    /\ error_type = 0
    /\ conn = "none"
    /\ connects = 0
    /\ closes = 0
    /\ wire = <<>>
    /\ rx = <<>>
    /\ rcpt_idx = 1
    /\ fault = "none"
    /\ output = NoOutput


\* ------------------------------------------------------ read_server_response
\* f"Error del servidor: {decoded_response}"
ErrPrefix == <<"E", "r", "r", "o", "r", " ", "d", "e", "l", " ",
               "s", "e", "r", "v", "i", "d", "o", "r", ":", " ">>

\* One call of read_server_response on what reader.read delivered:
\*   tag "ok"         returns the stripped response
\*   tag "smtp_error" raises SMTPClientError, text is str(e)
\*   tag "exception"  read or decode raised another exception
read_server_response(o) ==
    IF o.kind # "data"
    THEN [tag |-> "exception", text |-> <<>>]
    ELSE LET decoded_response == Strip(o.text) IN
         IF FirstChar(decoded_response) \notin {<<"2">>, <<"3">>}
         THEN [tag |-> "smtp_error", text |-> ErrPrefix \o decoded_response]
         ELSE [tag |-> "ok", text |-> decoded_response]

\* --------------------------------------------------- pieces of send_email
\* mutant: the sender check is left out
PrecheckSender_unchecked(s) == IF validate_raises(s) THEN "raise" ELSE "pass"

\* if not validate_email_address(sender_address): return email_sent, 1
PrecheckSender(s) ==
    IF validate_raises(s) THEN "raise"
    ELSE IF ~validate_email_address(s) THEN "reject"
    ELSE "pass"

\* mutant: only the first recipient is checked
PrecheckRecipients_first(rs) ==
    IF rs = <<>> THEN "pass"
    ELSE IF validate_raises(Head(rs)) THEN "raise"
    ELSE IF ~validate_email_address(Head(rs)) THEN "reject"
    ELSE "pass"

\* for recipient in recipient_addresses: if not validate...: return email_sent, 2
RECURSIVE PrecheckRecipients(_)
PrecheckRecipients(rs) ==
    IF rs = <<>> THEN "pass"
    ELSE IF validate_raises(Head(rs)) THEN "raise"
    ELSE IF ~validate_email_address(Head(rs)) THEN "reject"
    ELSE PrecheckRecipients(Tail(rs))

\* error_type set at the MAIL FROM step, at the RCPT TO step, and by
\* "except Exception"
MailErrorType == 1
RcptErrorType == 2
GenericErrorType == 3

\* mutant: the text of the response is inspected before the step's tag
ClassifyProtocolError_textfirst(et, msg) ==
    IF Contains(msg, <<"5", "0", "1">>) THEN 1
    ELSE IF Contains(msg, <<"5", "5", "0">>) THEN 2
    ELSE et

\* mutant: the step's tag is dropped, only the text decides
ClassifyProtocolError_untagged(et, msg) ==
    IF Contains(msg, <<"5", "0", "1">>) THEN 1
    ELSE IF Contains(msg, <<"5", "5", "0">>) THEN 2
    ELSE 0

\* mutant: the text of the response is never inspected
ClassifyProtocolError_nofallback(et, msg) == et

\* except SMTPClientError: if error_type == 0: "501" -> 1, elif "550" -> 2
ClassifyProtocolError(et, msg) ==
    IF et = 0
    THEN IF Contains(msg, <<"5", "0", "1">>) THEN 1
         ELSE IF Contains(msg, <<"5", "5", "0">>) THEN 2
         ELSE et
    ELSE et

\* mutant: the AUTH block is entered only with a non-empty password
AuthAttempted_credential(pw) == pw.chars # <<>>

\* the AUTH block is entered unconditionally after the EHLO response
AuthAttempted(pw) == TRUE

\* mutant: a 502 in the AUTH block is re-raised like any other failure
AuthTolerated_never(msg) == FALSE

\* except SMTPClientError as e: if "502" in str(e): continue
AuthTolerated(msg) == Contains(msg, <<"5", "0", "2">>)

\* auth_response.startswith('334')
CredentialRequested(resp) == StartsWith(resp, <<"3", "3", "4">>)

\* what is handed to writer.write at each step
EhloCommand == Item("EHLO", <<>>)
AuthCommand == Item("AUTH", <<>>)
CredentialLine(s, pw) == Item("CRED", <<Str(<<>>), s, pw>>)
MailCommand(s) == Item("MAIL", <<s>>)
\* mutant: the recipients are walked from the end of the list
RcptCommand_reversed(rs, i) == Item("RCPT", <<rs[Len(rs) + 1 - i]>>)
RcptCommand(rs, i) == Item("RCPT", <<rs[i]>>)
DataCommand == Item("DATA", <<>>)

\* sep.join(parts)
RECURSIVE Join(_, _)
Join(sep, parts) ==
    IF parts = <<>> THEN <<>>
    ELSE IF Len(parts) = 1 THEN parts[1]
    ELSE parts[1] \o sep \o Join(sep, Tail(parts))

CRLF == <<"\r", "\n">>

\* formatdate(localtime=True): the timestamp of the send, one opaque text
formatdate == <<"T", "s">>

\* lines 72-81: the header lines, the custom headers last in insertion order
email_headers(s, rs, hs) ==
    << <<"F", "r", "o", "m", ":", " ">> \o s.chars,
       <<"T", "o", ":", " ">> \o Join(<<",", " ">>, [i \in 1..Len(rs) |-> rs[i].chars]),
       <<"S", "u", "b", "j", "e", "c", "t", ":", " ">> \o email_subject,
       <<"D", "a", "t", "e", ":", " ">> \o formatdate >>
      \o [i \in 1..Len(hs) |-> hs[i][1] \o <<":", " ">> \o hs[i][2]]

\* mutant: the blank line between the headers and the body is left out
email_content_noblank(s, rs, hs) ==
    Join(CRLF, email_headers(s, rs, hs)) \o CRLF \o email_body

\* line 84: "\r\n".join(email_headers) + "\r\n\r\n" + email_body
email_content(s, rs, hs) ==
    Join(CRLF, email_headers(s, rs, hs)) \o CRLF \o CRLF \o email_body

\* line 137: email_content.encode() + b"\r\n.\r\n"
ContentBlock(s, rs, hs) ==
    Item("CONTENT", <<Str(email_content(s, rs, hs) \o CRLF \o <<".">> \o CRLF)>>)
QuitCommand == Item("QUIT", <<>>)

\* After the MAIL FROM response / a RCPT TO response: the for loop
FirstAfterMail(rs) == IF rs = <<>> THEN "write_data" ELSE "write_rcpt"


\* ------------------------------------------------- smtp_server.handle_client
\* the first bytes of what the client wrote for an item
CommandText(item) ==
    IF item.cmd = "EHLO" THEN <<"E", "H", "L", "O", " ", "l", "o", "c", "a", "l", "h", "o", "s", "t", "\r", "\n">>
    ELSE IF item.cmd = "AUTH" THEN <<"A", "U", "T", "H", " ", "P", "L", "A", "I", "N", "\r", "\n">>
    ELSE IF item.cmd = "CRED" THEN <<"A", "G">>
    ELSE IF item.cmd = "MAIL" THEN <<"M", "A", "I", "L", " ", "F", "R", "O", "M", ":">> \o item.arg[1].chars
    ELSE IF item.cmd = "RCPT" THEN <<"R", "C", "P", "T", " ", "T", "O", ":">> \o item.arg[1].chars
    ELSE IF item.cmd = "DATA" THEN <<"D", "A", "T", "A", "\r", "\n">>
    ELSE IF item.cmd = "QUIT" THEN <<"Q", "U", "I", "T", "\r", "\n">>
    ELSE item.arg[1].chars

\* json.dumps({"status_code": code, "message": message}) + b"\r\n"
JsonReply(code, message) ==
    <<"{", "\"", "s", "t", "a", "t", "u", "s", "_", "c", "o", "d", "e", "\"", ":", " ">>
      \o code \o <<",", " ", "\"", "m", "e", "s", "s", "a", "g", "e", "\"", ":", " ", "\"">>
      \o message \o <<"\"", "}", "\r", "\n">>

\* client_socket.send(b"220 Welcome to Simple SMTP Server\r\n")
ToyGreeting ==
    <<"2", "2", "0", " ", "W", "e", "l", "c", "o", "m", "e", " ", "t", "o", " ", "S",
      "i", "m", "p", "l", "e", " ", "S", "M", "T", "P", " ", "S", "e", "r", "v",
      "e", "r", "\r", "\n">>

\* the reply of handle_client to one received command
ToyReply(data) ==
    IF StartsWith(data, <<"H", "E", "L", "O">>) \/ StartsWith(data, <<"E", "H", "L", "O">>)
    THEN JsonReply(<<"2", "5", "0">>, <<"H", "e", "l", "l", "o">>)
    ELSE IF StartsWith(data, <<"M", "A", "I", "L", " ", "F", "R", "O", "M">>)
    THEN JsonReply(<<"2", "5", "0">>, <<"S", "e", "n", "d", "e", "r", " ", "O", "K">>)
    ELSE IF StartsWith(data, <<"R", "C", "P", "T", " ", "T", "O">>)
    THEN JsonReply(<<"2", "5", "0">>, <<"R", "e", "c", "i", "p", "i", "e", "n", "t", " ", "O", "K">>)
    ELSE IF StartsWith(data, <<"D", "A", "T", "A">>)
    THEN JsonReply(<<"2", "5", "0">>, <<"R", "e", "a", "d", "y", " ", "f", "o", "r", " ", "d", "a", "t", "a">>)
    ELSE IF StartsWith(data, <<"Q", "U", "I", "T">>)
    THEN JsonReply(<<"2", "5", "0">>, <<"G", "o", "o", "d", "b", "y", "e">>)
    ELSE JsonReply(<<"5", "0", "2">>, <<"C", "o", "m", "m", "a", "n", "d", " ", "n", "o", "t", " ", "i", "m", "p", "l",
      "e", "m", "e", "n", "t", "e", "d">>)

\* what the toy server has sent when the client reads next
handle_client(written) ==
    IF written = <<>> THEN ToyGreeting
    ELSE ToyReply(CommandText(written[Len(written)]))

\* what the next reader.read can deliver
ServerReplies ==
    IF server = "toy"
    THEN {[kind |-> "data", text |-> handle_client(wire)]}
    ELSE ReadOutcomes

\* ------------------------------------------------------------ step helpers
Session == <<sender_address, sender_password, recipient_addresses,
             custom_headers, server>>

\* writer.write(item); await writer.drain(): drain may raise a transport error,
\* which "except Exception" turns into error_type 3
WriteStep(item, next) ==
    /\ wire' = Append(wire, item)
    /\ \E drained \in BOOLEAN :
         IF drained
         THEN /\ pc' = next
              /\ UNCHANGED <<error_type, fault>>
         ELSE /\ pc' = "returned"
              /\ error_type' = GenericErrorType
              /\ fault' = "write"
    /\ UNCHANGED <<Session, email_sent, conn, connects, closes, rx, rcpt_idx, output>>

\* Leaving the try block by SMTPClientError (tagged et by the step) or by
\* another exception raised in read_server_response
RaiseFrom(o, r, et) ==
    /\ pc' = "returned"
    /\ IF r.tag = "smtp_error"
       THEN /\ error_type' = ClassifyProtocolError(et, r.text)
            /\ fault' = IF o.text = <<>> THEN "eof" ELSE "none"
       ELSE /\ error_type' = GenericErrorType
            /\ fault' = o.kind

\* await read_server_response(reader) at a step whose failure is tagged et
ReadStep(et, next) ==
    /\ \E o \in ServerReplies :
         LET r == read_server_response(o) IN
         /\ rx' = Append(rx, o)
         /\ IF r.tag = "ok"
            THEN /\ pc' = next
                 /\ UNCHANGED <<error_type, fault>>
            ELSE RaiseFrom(o, r, et)
    /\ UNCHANGED <<Session, email_sent, conn, connects, closes, wire, rcpt_idx, output>>

\* ----------------------------------------------------------------- actions
\* f"{key}: {value}"
HeaderLine(h) == h[1] \o <<":", " ">> \o h[2]

\* ord(c) < 128
IsAscii(c) == c \notin NonAsciiChars

\* all(ord(c) < 128 for c in f"{key}: {value}") for every header
HeadersAccepted(hs) ==
    \A i \in 1..Len(hs) :
        \A k \in 1..Len(HeaderLine(hs[i])) : IsAscii(HeaderLine(hs[i])[k])

\* main lines 200-210: the header check; on failure main prints status 400
\* and exits without calling send_email
CheckHeaders ==
    /\ pc = "main"
    /\ IF HeadersAccepted(custom_headers)
       THEN pc' = "validate" /\ output' = output
       ELSE /\ pc' = "exit"
            /\ output' = [status_code |-> 400, message |-> "Error en encabezados"]
    /\ UNCHANGED <<Session, email_sent, error_type, conn, connects, closes, wire,
                   rx, rcpt_idx, fault>>

\* send_email lines 60-84: address validation, then the content is built
Validate ==
    /\ pc = "validate"
    /\ LET ps == PrecheckSender(sender_address)
           pr == PrecheckRecipients(recipient_addresses) IN
       IF ps = "raise" THEN pc' = "raised" /\ UNCHANGED error_type
       ELSE IF ps = "reject" THEN pc' = "returned" /\ error_type' = 1
       ELSE IF pr = "raise" THEN pc' = "raised" /\ UNCHANGED error_type
       ELSE IF pr = "reject" THEN pc' = "returned" /\ error_type' = 2
       ELSE pc' = "connect" /\ UNCHANGED error_type
    /\ UNCHANGED <<Session, email_sent, conn, connects, closes, wire, rx,
                   rcpt_idx, fault, output>>

\* reader, writer = await asyncio.open_connection(smtp_server, smtp_port)
Connect ==
    /\ pc = "connect"
    /\ connects' = connects + 1
    /\ \E accepted \in BOOLEAN :
         IF accepted
         THEN /\ conn' = "open"
              /\ pc' = "read_greeting"
              /\ UNCHANGED <<error_type, fault>>
         ELSE /\ conn' = conn
              /\ pc' = "returned"
              /\ error_type' = GenericErrorType
              /\ fault' = "refused"
    /\ UNCHANGED <<Session, email_sent, closes, wire, rx, rcpt_idx, output>>

\* mutant: EHLO is written without reading the greeting first
ReadGreeting_skipped ==
    /\ pc = "read_greeting"
    /\ pc' = "write_ehlo"
    /\ UNCHANGED <<Session, email_sent, error_type, conn, connects, closes, wire,
                   rx, rcpt_idx, fault, output>>

ReadGreeting == pc = "read_greeting" /\ ReadStep(0, "write_ehlo")

WriteEhlo == pc = "write_ehlo" /\ WriteStep(EhloCommand, "read_ehlo")

ReadEhlo ==
    /\ pc = "read_ehlo"
    /\ ReadStep(0, IF AuthAttempted(sender_password) THEN "write_auth" ELSE "write_mail")

WriteAuth == pc = "write_auth" /\ WriteStep(AuthCommand, "read_auth")

\* lines 101-112: the response to AUTH PLAIN, inside the inner try
ReadAuth ==
    /\ pc = "read_auth"
    /\ \E o \in ServerReplies :
         LET r == read_server_response(o) IN
         /\ rx' = Append(rx, o)
         /\ IF r.tag = "ok"
            THEN /\ pc' = IF CredentialRequested(r.text) THEN "write_cred" ELSE "write_mail"
                 /\ UNCHANGED <<error_type, fault>>
            ELSE IF r.tag = "smtp_error" /\ AuthTolerated(r.text)
            THEN /\ pc' = "write_mail"
                 /\ UNCHANGED <<error_type, fault>>
            ELSE RaiseFrom(o, r, 0)
    /\ UNCHANGED <<Session, email_sent, conn, connects, closes, wire, rcpt_idx, output>>

WriteCredential ==
    /\ pc = "write_cred"
    /\ WriteStep(CredentialLine(sender_address, sender_password), "read_cred")

\* line 107: the response to the credential line, inside the same inner try
ReadCredential ==
    /\ pc = "read_cred"
    /\ \E o \in ServerReplies :
         LET r == read_server_response(o) IN
         /\ rx' = Append(rx, o)
         /\ IF r.tag = "ok" \/ (r.tag = "smtp_error" /\ AuthTolerated(r.text))
            THEN /\ pc' = "write_mail"
                 /\ UNCHANGED <<error_type, fault>>
            ELSE RaiseFrom(o, r, 0)
    /\ UNCHANGED <<Session, email_sent, conn, connects, closes, wire, rcpt_idx, output>>

WriteMail == pc = "write_mail" /\ WriteStep(MailCommand(sender_address), "read_mail")

ReadMail ==
    /\ pc = "read_mail"
    /\ ReadStep(MailErrorType, FirstAfterMail(recipient_addresses))

WriteRcpt ==
    /\ pc = "write_rcpt"
    /\ WriteStep(RcptCommand(recipient_addresses, rcpt_idx), "read_rcpt")

\* the response to RCPT TO; on success the loop goes to the next recipient
ReadRcpt ==
    /\ pc = "read_rcpt"
    /\ \E o \in ServerReplies :
         LET r == read_server_response(o) IN
         /\ rx' = Append(rx, o)
         /\ IF r.tag = "ok"
            THEN /\ IF rcpt_idx < Len(recipient_addresses)
                    THEN pc' = "write_rcpt" /\ rcpt_idx' = rcpt_idx + 1
                    ELSE pc' = "write_data" /\ rcpt_idx' = rcpt_idx
                 /\ UNCHANGED <<error_type, fault>>
            ELSE RaiseFrom(o, r, RcptErrorType) /\ rcpt_idx' = rcpt_idx
    /\ UNCHANGED <<Session, email_sent, conn, connects, closes, wire, output>>

WriteData == pc = "write_data" /\ WriteStep(DataCommand, "read_data")

ReadData == pc = "read_data" /\ ReadStep(0, "write_content")

WriteContent ==
    /\ pc = "write_content"
    /\ WriteStep(ContentBlock(sender_address, recipient_addresses, custom_headers),
                 "read_content")

ReadContent == pc = "read_content" /\ ReadStep(0, "write_quit")

WriteQuit == pc = "write_quit" /\ WriteStep(QuitCommand, "read_quit")

\* mutant: email_sent is not set after the accepted QUIT response
ReadQuit_flagless ==
    /\ pc = "read_quit"
    /\ \E o \in ServerReplies :
         LET r == read_server_response(o) IN
         /\ rx' = Append(rx, o)
         /\ IF r.tag = "ok"
            THEN pc' = "returned" /\ UNCHANGED <<error_type, fault>>
            ELSE RaiseFrom(o, r, 0)
    /\ UNCHANGED <<Session, email_sent, conn, connects, closes, wire, rcpt_idx, output>>

\* lines 144-146: the QUIT response, then email_sent = True
ReadQuit ==
    /\ pc = "read_quit"
    /\ \E o \in ServerReplies :
         LET r == read_server_response(o) IN
         /\ rx' = Append(rx, o)
         /\ IF r.tag = "ok"
            THEN /\ pc' = "returned"
                 /\ email_sent' = TRUE
                 /\ UNCHANGED <<error_type, fault>>
            ELSE RaiseFrom(o, r, 0) /\ email_sent' = email_sent
    /\ UNCHANGED <<Session, conn, connects, closes, wire, rcpt_idx, output>>

\* await reader.read(1024) has no timeout: when the peer sends nothing and
\* keeps the stream open, the read, and with it send_email, never resumes
ReadPositions == {"read_greeting", "read_ehlo", "read_auth", "read_cred", "read_mail",
                  "read_rcpt", "read_data", "read_content", "read_quit"}

AwaitForever ==
    /\ pc \in ReadPositions
    /\ server = "any"
    /\ pc' = "blocked"
    /\ UNCHANGED <<Session, email_sent, error_type, conn, connects, closes, wire,
                   rx, rcpt_idx, fault, output>>

\* ------------------------------------------------------------------- main
status_codes == (0 :> 550) @@ (1 :> 501) @@ (2 :> 550) @@ (3 :> 503)

error_messages ==
    (0 :> "Error desconocido del servidor") @@ (1 :> "Invalid sender address")
      @@ (2 :> "Invalid recipient address") @@ (3 :> "Error de protocolo SMTP")

\* main lines 238-248: the JSON object built from what send_email returned,
\* or from the exception that escaped it
MainOutput(returned, sent, et) ==
    IF ~returned
    THEN [status_code |-> 500, message |-> "Excepcion"]
    ELSE IF sent
    THEN [status_code |-> 250, message |-> "Message accepted for delivery"]
    ELSE [status_code |-> IF et \in DOMAIN status_codes THEN status_codes[et] ELSE 550,
          message |-> IF et \in DOMAIN error_messages THEN error_messages[et]
                      ELSE "Unknown error"]

Main ==
    /\ pc \in {"returned", "raised"}
    /\ output' = MainOutput(pc = "returned", email_sent, error_type)
    /\ pc' = "exit"
    /\ UNCHANGED <<Session, email_sent, error_type, conn, connects, closes, wire,
                   rx, rcpt_idx, fault>>

Next ==
    \/ CheckHeaders
    \/ Validate
    \/ Connect
    \/ ReadGreeting
    \/ WriteEhlo
    \/ ReadEhlo
    \/ WriteAuth
    \/ ReadAuth
    \/ WriteCredential
    \/ ReadCredential
    \/ WriteMail
    \/ ReadMail
    \/ WriteRcpt
    \/ ReadRcpt
    \/ WriteData
    \/ ReadData
    \/ WriteContent
    \/ ReadContent
    \/ WriteQuit
    \/ ReadQuit
    \/ AwaitForever
    \/ Main

Spec == Init /\ [][Next]_vars

TypeOK ==
    /\ pc \in {"main", "validate", "connect", "read_greeting", "write_ehlo", "read_ehlo",
               "write_auth", "read_auth", "write_cred", "read_cred", "write_mail",
               "read_mail", "write_rcpt", "read_rcpt", "write_data", "read_data",
               "write_content", "read_content", "write_quit", "read_quit",
               "returned", "raised", "exit", "blocked"}
    /\ email_sent \in BOOLEAN
    /\ error_type \in 0..3
    /\ conn \in {"none", "open", "closed"}
    /\ rcpt_idx \in 1..(MaxRcpt + 1)


\* ------------------------------------------------- vocabulary of the claims
\* send_email has returned an outcome (email_sent, error_type)
Done == pc = "returned" \/ (pc = "exit" /\ output.status_code \notin {400, 500})

\* send_email was called and its address validation has run
Validated == pc \notin {"main", "validate"} /\ output.status_code # 400

Last(q) == q[Len(q)]

Accepted(o) == read_server_response(o).tag = "ok"

\* the server's line made read_server_response raise SMTPClientError
Rejected(o) == read_server_response(o).tag = "smtp_error"

\* rx[1] is the greeting and rx[k], k >= 2, is what was read after wire[k-1]
AnswerTo(c, k) == k >= 2 /\ k - 1 <= Len(wire) /\ wire[k - 1].cmd = c

Sent(c) == \E m \in 1..Len(wire) : wire[m].cmd = c

IsStrAddr(a) == a.str

ValidAddr(a) == a.str /\ validate_email_address(a)

InvalidAddr(a) == a.str /\ ~validate_email_address(a)

IsPrefix(p, q) == Len(p) <= Len(q) /\ SubSeq(q, 1, Len(p)) = p

\* The DATA payload as a list of lines, each followed by CRLF: From, To,
\* Subject, Date, one line per custom header, an empty line, the body, and the
\* line holding only "."
RECURSIVE CommaList(_)
CommaList(rs) ==
    IF rs = <<>> THEN <<>>
    ELSE IF Len(rs) = 1 THEN rs[1].chars
    ELSE CommaList(SubSeq(rs, 1, Len(rs) - 1)) \o <<",", " ">> \o rs[Len(rs)].chars

PayloadLines ==
    << <<"F", "r", "o", "m", ":", " ">> \o sender_address.chars,
       <<"T", "o", ":", " ">> \o CommaList(recipient_addresses),
       <<"S", "u", "b", "j", "e", "c", "t", ":", " ">> \o email_subject,
       <<"D", "a", "t", "e", ":", " ">> \o formatdate >>
      \o [i \in 1..Len(custom_headers) |->
            custom_headers[i][1] \o <<":", " ">> \o custom_headers[i][2]]
      \o << <<>>, email_body, <<".">> >>

RECURSIVE Terminated(_)
Terminated(lines) ==
    IF lines = <<>> THEN <<>> ELSE Head(lines) \o <<"\r", "\n">> \o Terminated(Tail(lines))

ExpectedPayload == Terminated(PayloadLines)

\* the command sequence of a complete session, with or without the credential line
ExpectedWire(withCred) ==
    <<Item("EHLO", <<>>), Item("AUTH", <<>>)>>
      \o (IF withCred
          THEN <<Item("CRED", <<Str(<<>>), sender_address, sender_password>>)>>
          ELSE <<>>)
      \o <<Item("MAIL", <<sender_address>>)>>
      \o [i \in 1..Len(recipient_addresses) |->
            Item("RCPT", <<recipient_addresses[i]>>)]
      \o <<Item("DATA", <<>>),
           Item("CONTENT", <<Str(ExpectedPayload)>>),
           Item("QUIT", <<>>)>>

\* ------------------------------------------------------------------ claims
\* C1: every call of send_email that opened a connection has closed it exactly
\* once when it returns; no final state has an open connection.
CE_C1 == (Done /\ conn # "none") => (conn = "closed" /\ closes = 1)

\* C2: with a sender that the validator rejects, send_email opens no
\* connection, writes nothing and returns (not sent, 1), whatever the
\* recipients and the password are.
Thm_C2 ==
    (InvalidAddr(sender_address) /\ Validated)
        => /\ Done
           /\ connects = 0 /\ conn = "none" /\ wire = <<>> /\ rx = <<>>
           /\ ~email_sent /\ error_type = 1

Wit_C2 ==
    /\ pc = "returned" /\ InvalidAddr(sender_address) /\ error_type = 1
    /\ Len(recipient_addresses) = 2 /\ ValidAddr(recipient_addresses[1])

\* C3: with a valid sender and a recipient list in which an address is
\* rejected by the validator (the values before it being strings), send_email
\* returns (not sent, 2) without opening a connection: nothing is written,
\* also not for the valid recipients before the first invalid one.
Thm_C3 ==
    (/\ ValidAddr(sender_address)
     /\ \E i \in 1..Len(recipient_addresses) :
            /\ InvalidAddr(recipient_addresses[i])
            /\ \A j \in 1..(i - 1) : IsStrAddr(recipient_addresses[j])
     /\ Validated)
        => /\ Done
           /\ connects = 0 /\ conn = "none" /\ wire = <<>> /\ rx = <<>>
           /\ ~email_sent /\ error_type = 2

Wit_C3 ==
    /\ pc = "returned" /\ ValidAddr(sender_address) /\ error_type = 2
    /\ Len(recipient_addresses) = 2
    /\ ValidAddr(recipient_addresses[1]) /\ InvalidAddr(recipient_addresses[2])

\* C4: once the server's answer to a RCPT TO is not accepted, that answer is
\* the last thing read and the RCPT TO the last thing written: no further
\* RCPT TO, no DATA, content or QUIT, and the outcome is (not sent, 2).
Thm_C4 ==
    \A k \in 1..Len(rx) :
        (AnswerTo("RCPT", k) /\ Rejected(rx[k]))
            => /\ Len(rx) = k /\ Len(wire) = k - 1
               /\ Done /\ ~email_sent /\ error_type = 2
               /\ ~Sent("DATA") /\ ~Sent("CONTENT") /\ ~Sent("QUIT")

Wit_C4 ==
    /\ pc = "returned" /\ Len(recipient_addresses) = 2 /\ rcpt_idx = 1
    /\ AnswerTo("RCPT", Len(rx)) /\ Last(rx).text = R501 /\ error_type = 2

\* C5: once the server's answer to MAIL FROM is not accepted, the outcome is
\* (not sent, 1) whatever the text of the answer (also when it contains 550),
\* and nothing is written after the MAIL FROM.
Thm_C5 ==
    \A k \in 1..Len(rx) :
        (AnswerTo("MAIL", k) /\ Rejected(rx[k]))
            => /\ Len(rx) = k /\ Len(wire) = k - 1
               /\ Done /\ ~email_sent /\ error_type = 1
               /\ ~Sent("RCPT") /\ ~Sent("DATA") /\ ~Sent("CONTENT") /\ ~Sent("QUIT")

Wit_C5 ==
    /\ pc = "returned" /\ AnswerTo("MAIL", Len(rx)) /\ Last(rx).text = R550
    /\ error_type = 1 /\ recipient_addresses # <<>>

Auth502Server ==
    /\ Len(rx) >= 3 /\ fault = "none"
    /\ rx[3].kind = "data" /\ StartsWith(Strip(rx[3].text), <<"5", "0", "2">>)
    /\ \A k \in 1..Len(rx) : k # 3 => Accepted(rx[k])

Thm_C7 ==
    Auth502Server
        => /\ ~Sent("CRED")
           /\ IsPrefix(wire, ExpectedWire(FALSE))
           /\ pc \notin {"raised", "validate", "connect"}
           /\ Done => (email_sent /\ error_type = 0 /\ wire = ExpectedWire(FALSE))

Wit_C7 ==
    /\ pc = "returned" /\ Auth502Server /\ email_sent
    /\ sender_password.chars # <<>> /\ Len(recipient_addresses) = 2

\* C8: when every answer of the server is accepted, the commands written are
\* exactly EHLO, the AUTH exchange, MAIL FROM, one RCPT TO per recipient in
\* envelope order, DATA, content, QUIT; the outcome is (sent, 0) and main
\* prints status_code 250.  Conversely sent is true only after the QUIT
\* answer was read and accepted.
AllAccepted == fault = "none" /\ rx # <<>> /\ \A k \in 1..Len(rx) : Accepted(rx[k])

Thm_C8 ==
    /\ AllAccepted
         => /\ IF Len(rx) >= 3
               THEN IsPrefix(wire, ExpectedWire(CredentialRequested(Strip(rx[3].text))))
               ELSE IsPrefix(wire, <<Item("EHLO", <<>>), Item("AUTH", <<>>)>>)
            /\ pc \notin {"raised", "validate", "connect"}
            /\ (pc \in {"returned", "exit"})
                 => /\ wire = ExpectedWire(CredentialRequested(Strip(rx[3].text)))
                    /\ email_sent /\ error_type = 0
            /\ pc = "exit" => output.status_code = 250
    /\ email_sent
         => /\ wire # <<>> /\ Last(wire) = Item("QUIT", <<>>)
            /\ Len(rx) = Len(wire) + 1 /\ Accepted(Last(rx))

Wit_C8 ==
    /\ pc = "exit" /\ AllAccepted /\ email_sent /\ output.status_code = 250
    /\ Sent("CRED")
    /\ Len(recipient_addresses) = 2
    /\ recipient_addresses[1] # recipient_addresses[2]

\* C9: when the transport fails (connection refused, a read or write error, a
\* decode error, or the peer closing the stream so that a read returns no
\* bytes), the outcome is (not sent, 3).
CE_C9 == (Done /\ fault # "none") => (~email_sent /\ error_type = 3)

\* C10: main's status code follows the outcome table: sent gives 250, a sender
\* failure 501, a recipient failure 550, a generic protocol failure (greeting,
\* EHLO, DATA, content or QUIT rejected with a text containing neither 501 nor
\* 550) gives 503, and "Unknown error" only a classification outside the table.
GenericProtocolFailure ==
    /\ rx # <<>> /\ Len(rx) = Len(wire) + 1
    /\ Rejected(Last(rx)) /\ Strip(Last(rx).text) # <<>>
    /\ Len(rx) = 1 \/ Last(wire).cmd \in {"EHLO", "DATA", "CONTENT", "QUIT"}
    /\ ~Contains(Last(rx).text, <<"5", "0", "1">>)
    /\ ~Contains(Last(rx).text, <<"5", "5", "0">>)

CE_C10 ==
    (pc = "exit" /\ Done)
        => /\ email_sent => output.status_code = 250
           /\ (~email_sent /\ error_type = 1) => output.status_code = 501
           /\ (~email_sent /\ error_type = 2) => output.status_code = 550
           /\ GenericProtocolFailure => output.status_code = 503
           /\ output.message = "Unknown error" => error_type \notin 0..3


\* C11: a delivery whose custom headers contain, in a key or a value, a
\* character that is not printable ASCII (a non-ASCII character, or a control
\* character such as CR or LF) is rejected before any connection attempt:
\* nothing is connected and nothing is written.
ControlChars == {"\r", "\n", "\t"}

IsPrintableAscii(c) == c \notin NonAsciiChars /\ c \notin ControlChars

HeadersPrintable ==
    \A i \in 1..Len(custom_headers) : \A j \in 1..2 :
        \A k \in 1..Len(custom_headers[i][j]) : IsPrintableAscii(custom_headers[i][j][k])

CE_C11 == ~HeadersPrintable => (connects = 0 /\ conn = "none" /\ wire = <<>>)


\* C12: every call of send_email ends, whatever the server does: in every
\* state the call has ended or a next step is possible (also when the server
\* accepted the connection and then sends nothing).
SendEmailEnded == pc \in {"returned", "raised", "exit"}

CE_C12 == SendEmailEnded \/ ENABLED Next


\* C13: send_email never lets an exception escape: for every input (also a
\* sender or recipient that is not a string, and an empty recipient list) and
\* every behaviour of the server it returns an outcome.
CE_C13 == pc # "raised" /\ output.status_code # 500

\* C14: validate_email_address returns false, and never raises, for the empty
\* string and for a value that is not a string, in smtp_utils.py and in
\* smtp_client.py: send_email then returns (not sent, 1) for such a sender.
EmptyOrNonStr(a) == ~a.str \/ a.chars = <<>>

CE_C14 ==
    (Validated /\ EmptyOrNonStr(sender_address))
        => /\ ~client_validate_email_address(sender_address)
           /\ pc # "raised" /\ Done /\ ~email_sent /\ error_type = 1


\* C15: the DATA payload written by send_email is the lines From, To (the
\* recipients joined by ", "), Subject, Date, one line "key: value" per custom
\* header in insertion order, an empty line and the body, each followed by
\* CRLF, and then the end-of-data line ".".
Thm_C15 ==
    \A m \in 1..Len(wire) :
        wire[m].cmd = "CONTENT" => wire[m].arg = <<Str(ExpectedPayload)>>

Wit_C15 ==
    /\ Sent("CONTENT") /\ custom_headers = H_two
    /\ Last(wire).arg = <<Str(ExpectedPayload)>>

\* C16: in the AUTH step the only rejection that lets the session go on is a
\* 502 answer to AUTH PLAIN itself; every other rejection of AUTH PLAIN or of
\* the credential line (also a 502 answer to the credential line) ends the
\* session: MAIL FROM is never written and the outcome is not sent.
Is502(o) == o.kind = "data" /\ StartsWith(Strip(o.text), <<"5", "0", "2">>)

CE_C16 ==
    \A k \in 1..Len(rx) :
        (/\ AnswerTo("AUTH", k) \/ AnswerTo("CRED", k)
         /\ Rejected(rx[k])
         /\ ~(AnswerTo("AUTH", k) /\ Is502(rx[k])))
            => /\ Len(rx) = k /\ Len(wire) = k - 1
               /\ Done /\ ~email_sent /\ ~Sent("MAIL")

\* C17: the session is lockstep: nothing is written before the greeting was
\* read and accepted, and before each later write exactly one response to the
\* previous write was read and was a 2xx/3xx line or the 502 tolerated in the
\* AUTH step; no command is written while a response is unread.
OkLine(o) ==
    /\ o.kind = "data"
    /\ Strip(o.text) # <<>>
    /\ Strip(o.text)[1] \in {"2", "3"}

Tolerated502(k) ==
    /\ k >= 2 /\ wire[k - 1].cmd \in {"AUTH", "CRED"}
    /\ rx[k].kind = "data" /\ Contains(Strip(rx[k].text), <<"5", "0", "2">>)

WritePositions == {"write_ehlo", "write_auth", "write_cred", "write_mail", "write_rcpt",
                   "write_data", "write_content", "write_quit"}

FailedStep == IF wire = <<>> THEN "GREETING" ELSE Last(wire).cmd

TextClass(t) ==
    IF Contains(t, <<"5", "0", "1">>) THEN 1
    ELSE IF Contains(t, <<"5", "5", "0">>) THEN 2
    ELSE 0

Thm_C18 ==
    (Done /\ rx # <<>> /\ Len(rx) = Len(wire) + 1 /\ Rejected(Last(rx)))
        => /\ ~email_sent
           /\ error_type = IF FailedStep = "MAIL" THEN 1
                           ELSE IF FailedStep = "RCPT" THEN 2
                           ELSE TextClass(Strip(Last(rx).text))

Wit_C18 ==
    /\ pc = "returned" /\ FailedStep = "DATA" /\ Len(rx) = Len(wire) + 1
    /\ Last(rx).text = R501 /\ error_type = 1

\* C19 (as stated): when send_email returns not sent, the server has not
\* accepted the message content.
ContentAcked ==
    \E k \in 1..Len(rx) : AnswerTo("CONTENT", k) /\ OkLine(rx[k])

CE_C19 == (Done /\ ~email_sent) => ~ContentAcked

\* C19 (amended): send_email returns not sent after the server accepted the
\* content exactly when the QUIT step fails (the QUIT write fails, or the
\* QUIT response is a rejection, is empty or cannot be read); every sent
\* outcome has the content accepted.
Thm_C19 ==
    /\ (Done /\ ~email_sent /\ ContentAcked)
         => /\ Last(wire).cmd = "QUIT"
            /\ \/ fault = "write" /\ Len(rx) = Len(wire)
               \/ Len(rx) = Len(wire) + 1 /\ ~OkLine(Last(rx))
    /\ (Done /\ email_sent) => ContentAcked

Wit_C19 ==
    /\ pc = "returned" /\ ~email_sent /\ ContentAcked
    /\ FailedStep = "QUIT" /\ Last(rx).text = R421


\* C20: a session of send_email with valid addresses against the toy server
\* (greeting, then one reply per command, 502 for an unknown command) runs to
\* QUIT and ends sent: every reply is read as success or as the tolerated
\* AUTH 502.
CE_C20 ==
    /\ (server = "toy" /\ fault = "none")
         => \A k \in 1..Len(rx) : k <= Len(wire) + 1 => (OkLine(rx[k]) \/ Tolerated502(k))
    /\ (server = "toy" /\ fault = "none" /\ Done) => (email_sent /\ Sent("QUIT"))

====
